---- MODULE Spec2Model ----
(***************************************************************************)
(* A model of the yab lexer (crates/yab-parser/src/lexer): the tokenize    *)
(* driver loop of mod.rs, the regex-literal recognizer of regex.rs and the *)
(* operator table of operator.rs.  A source text is a sequence of          *)
(* one-character strings; the cursor is the 1-based index of the next      *)
(* character to read (its offset plus one).                                *)
(***************************************************************************)
EXTENDS Integers, Sequences, FiniteSets, TLC

VARIABLES src, pos, tokens, template_depth, result, diag, returned, rec, tried

vars == <<src, pos, tokens, template_depth, result, diag, returned, rec, tried>>

----------------------------------------------------------------------------
(* Bounds of the explored inputs.                                          *)

MaxLen == 3

MaxTemplateLen == 6

MaxRegexLen == 5

MaxTail == 4

MaxHashbangLen == 4

MaxShortLen == 2

----------------------------------------------------------------------------
(* Characters and character classes.                                       *)

Letters ==
    {"a", "b", "c", "d", "e", "f", "g", "h", "i", "j", "k", "l", "m",
     "n", "o", "p", "q", "r", "s", "t", "u", "v", "w", "x", "y", "z"}

Digits == {"0", "1", "2", "3", "4", "5", "6", "7", "8", "9"}

is_whitespace(c) == c \in {" ", "\t", "\n", "\r"}

is_alphabetic(c) == c \in Letters

is_line_terminator(c) == c \in {"\n", "\r"}

(* The backtick character, which a TLA+ string cannot hold.                *)
Backtick == "BACKTICK"

(* CodeIter::peek: the next character, or "EOF" for None.                  *)
peek(s, p) == IF p <= Len(s) THEN s[p] ELSE "EOF"

(* Whether the text w starts at position p of s.                           *)
starts_with(s, p, w) ==
    /\ p + Len(w) - 1 <= Len(s)
    /\ \A k \in 1..Len(w) : s[p + k - 1] = w[k]

----------------------------------------------------------------------------
(* Tokens and recognizer results.                                          *)

Tok(type, kind, text, flags) ==
    [type |-> type, kind |-> kind, text |-> text, flags |-> flags]

NoToken == Tok("None", "", <<>>, <<>>)

(* Ok(None) / None: not this category, cursor untouched.                   *)
NoneAt(p) == [res |-> "none", toks |-> <<>>, pos |-> p, msg |-> "", arg |-> ""]

(* Ok(Some(..)) / Some(..): the tokens pushed and the cursor afterwards.   *)
SomeAt(toks, p) == [res |-> "some", toks |-> toks, pos |-> p, msg |-> "", arg |-> ""]

(* Err(diagnostic): the message and the character it names, if any.        *)
ErrAt(msg, arg, p) == [res |-> "err", toks |-> <<>>, pos |-> p, msg |-> msg, arg |-> arg]

(* tokens.last()                                                           *)
last(toks) == IF toks = <<>> THEN NoToken ELSE toks[Len(toks)]

----------------------------------------------------------------------------
(* regex.rs                                                                *)

RegexFlags == {"g", "i", "m", "s", "u", "y"}

(* parse_regex_pattern without the line-terminator arm: the terminator is  *)
(* pushed onto the lexeme like any other character.                        *)
RECURSIVE parse_regex_pattern_spanning_lines(_, _, _)
parse_regex_pattern_spanning_lines(s, p, lexeme) ==
    IF p > Len(s)
    THEN ErrAt("Unexpected EOF while parsing regular expression", "", p)
    ELSE IF s[p] = "/"
    THEN [res |-> "some", toks |-> lexeme, pos |-> p + 1, msg |-> "", arg |-> ""]
    ELSE parse_regex_pattern_spanning_lines(s, p + 1, Append(lexeme, s[p]))

(* parse_regex_pattern returning the lexeme when the iterator runs out.    *)
RECURSIVE parse_regex_pattern_closing_at_eof(_, _, _)
parse_regex_pattern_closing_at_eof(s, p, lexeme) ==
    IF p > Len(s)
    THEN [res |-> "some", toks |-> lexeme, pos |-> p, msg |-> "", arg |-> ""]
    ELSE IF s[p] = "/"
    THEN [res |-> "some", toks |-> lexeme, pos |-> p + 1, msg |-> "", arg |-> ""]
    ELSE IF is_line_terminator(s[p])
    THEN ErrAt("Unexpected line terminator while parsing regular expression", "", p + 1)
    ELSE parse_regex_pattern_closing_at_eof(s, p + 1, Append(lexeme, s[p]))

(* parse_regex_pattern reading a backslash together with the character    *)
(* after it, so that an escaped "/" stays in the pattern.                  *)
RECURSIVE parse_regex_pattern_with_escapes(_, _, _)
parse_regex_pattern_with_escapes(s, p, lexeme) ==
    IF p > Len(s)
    THEN ErrAt("Unexpected EOF while parsing regular expression", "", p)
    ELSE IF s[p] = "/"
    THEN [res |-> "some", toks |-> lexeme, pos |-> p + 1, msg |-> "", arg |-> ""]
    ELSE IF is_line_terminator(s[p])
    THEN ErrAt("Unexpected line terminator while parsing regular expression", "", p + 1)
    ELSE IF s[p] = "\\" /\ p < Len(s)
    THEN parse_regex_pattern_with_escapes(s, p + 2, lexeme \o <<s[p], s[p + 1]>>)
    ELSE parse_regex_pattern_with_escapes(s, p + 1, Append(lexeme, s[p]))

(* The loop of parse_regex_pattern: p is the next character the iterator   *)
(* yields, lexeme the text collected so far.                               *)
RECURSIVE parse_regex_pattern(_, _, _)
parse_regex_pattern(s, p, lexeme) ==
    IF p > Len(s)
    THEN ErrAt("Unexpected EOF while parsing regular expression", "", p)
    ELSE IF s[p] = "/"
    THEN [res |-> "some", toks |-> lexeme, pos |-> p + 1, msg |-> "", arg |-> ""]
    ELSE IF is_line_terminator(s[p])
    THEN ErrAt("Unexpected line terminator while parsing regular expression", "", p + 1)
    ELSE parse_regex_pattern(s, p + 1, Append(lexeme, s[p]))

(* parse_regex_flags without the arm that rejects other letters.           *)
RECURSIVE parse_regex_flags_any_letter_ends(_, _, _)
parse_regex_flags_any_letter_ends(s, p, lexeme) ==
    IF p > Len(s)
    THEN [res |-> "some", toks |-> lexeme, pos |-> p, msg |-> "", arg |-> ""]
    ELSE IF s[p] \in RegexFlags
    THEN parse_regex_flags_any_letter_ends(s, p + 1, Append(lexeme, s[p]))
    ELSE [res |-> "some", toks |-> lexeme, pos |-> p, msg |-> "", arg |-> ""]

(* parse_regex_flags reading the character that ends the flags with next  *)
(* instead of peek.                                                        *)
RECURSIVE parse_regex_flags_consuming_end(_, _, _)
parse_regex_flags_consuming_end(s, p, lexeme) ==
    IF p > Len(s)
    THEN [res |-> "some", toks |-> lexeme, pos |-> p, msg |-> "", arg |-> ""]
    ELSE IF s[p] \in RegexFlags
    THEN parse_regex_flags_consuming_end(s, p + 1, Append(lexeme, s[p]))
    ELSE IF is_whitespace(s[p])
    THEN [res |-> "some", toks |-> lexeme, pos |-> p + 1, msg |-> "", arg |-> ""]
    ELSE IF s[p] = ";"
    THEN [res |-> "some", toks |-> lexeme, pos |-> p + 1, msg |-> "", arg |-> ""]
    ELSE IF is_alphabetic(s[p])
    THEN ErrAt("Invalid regular expression flag", s[p], p)
    ELSE [res |-> "some", toks |-> lexeme, pos |-> p + 1, msg |-> "", arg |-> ""]

(* The loop of parse_regex_flags.                                          *)
RECURSIVE parse_regex_flags(_, _, _)
parse_regex_flags(s, p, lexeme) ==
    IF p > Len(s)
    THEN [res |-> "some", toks |-> lexeme, pos |-> p, msg |-> "", arg |-> ""]
    ELSE IF s[p] \in RegexFlags
    THEN parse_regex_flags(s, p + 1, Append(lexeme, s[p]))
    ELSE IF is_whitespace(s[p])
    THEN [res |-> "some", toks |-> lexeme, pos |-> p, msg |-> "", arg |-> ""]
    ELSE IF s[p] = ";"
    THEN [res |-> "some", toks |-> lexeme, pos |-> p, msg |-> "", arg |-> ""]
    ELSE IF is_alphabetic(s[p])
    THEN ErrAt("Invalid regular expression flag", s[p], p)
    ELSE [res |-> "some", toks |-> lexeme, pos |-> p, msg |-> "", arg |-> ""]

(* regex_allowed with closing parentheses let through as well.             *)
regex_allowed_any_paren(previous_token) ==
    \/ previous_token.type = "Operator"
    \/ previous_token.type = "Punctuation"
         /\ previous_token.kind \in {"Comma", "OpenParen", "CloseParen"}
    \/ previous_token = NoToken

(* regex_allowed with a comment counted as no token at all.                *)
regex_allowed_after_comment(previous_token) ==
    \/ previous_token.type = "Operator"
    \/ previous_token.type = "Punctuation" /\ previous_token.kind = "Comma"
    \/ previous_token.type = "Punctuation" /\ previous_token.kind = "OpenParen"
    \/ previous_token.type = "Comment"
    \/ previous_token = NoToken

(* The previous tokens after which try_parse_regex_literal looks at the    *)
(* cursor at all (the outer match).                                        *)
regex_allowed(previous_token) ==
    \/ previous_token.type = "Operator"
    \/ previous_token.type = "Punctuation" /\ previous_token.kind = "Comma"
    \/ previous_token.type = "Punctuation" /\ previous_token.kind = "OpenParen"
    \/ previous_token = NoToken

(* try_parse_regex_literal with the inner match on chars.next(): a         *)
(* character that is not "/" is taken before None is returned.             *)
try_parse_regex_literal_taking_char(s, p, previous_token) ==
    IF regex_allowed(previous_token)
    THEN IF peek(s, p) = "/"
         THEN LET pattern == parse_regex_pattern(s, p + 1, <<>>) IN
              IF pattern.res = "err" THEN pattern
              ELSE LET flags == parse_regex_flags(s, pattern.pos, <<>>) IN
                   IF flags.res = "err" THEN flags
                   ELSE SomeAt(<<Tok("RegexLiteral", "", pattern.toks, flags.toks)>>,
                               flags.pos)
         ELSE IF p <= Len(s) THEN NoneAt(p + 1) ELSE NoneAt(p)
    ELSE NoneAt(p)

try_parse_regex_literal(s, p, previous_token) ==
    IF regex_allowed(previous_token)
    THEN IF peek(s, p) = "/"
         THEN LET pattern == parse_regex_pattern(s, p + 1, <<>>) IN
              IF pattern.res = "err" THEN pattern
              ELSE LET flags == parse_regex_flags(s, pattern.pos, <<>>) IN
                   IF flags.res = "err" THEN flags
                   ELSE SomeAt(<<Tok("RegexLiteral", "", pattern.toks, flags.toks)>>,
                               flags.pos)
         ELSE NoneAt(p)
    ELSE NoneAt(p)

----------------------------------------------------------------------------
(* operator.rs and the lexeme-table matcher it is built on.                *)

(* OperatorTable with the kinds of "==" and "===" exchanged.               *)
OperatorTable_swapped_equality ==
    { [lexeme |-> <<"+">>, kind |-> "Plus"],
      [lexeme |-> <<"=">>, kind |-> "Assignment"],
      [lexeme |-> <<"=", "=">>, kind |-> "StrictEquality"],
      [lexeme |-> <<"=", "=", "=">>, kind |-> "LooseEquality"] }

(* The (lexeme, kind) pairs declared on OperatorType.                      *)
OperatorTable ==
    { [lexeme |-> <<"+">>, kind |-> "Plus"],
      [lexeme |-> <<"=">>, kind |-> "Assignment"],
      [lexeme |-> <<"=", "=">>, kind |-> "LooseEquality"],
      [lexeme |-> <<"=", "=", "=">>, kind |-> "StrictEquality"] }

(* The (lexeme, kind) pairs of PunctuationType that the lexer's tests and  *)
(* regex.rs name.                                                          *)
PunctuationTable ==
    { [lexeme |-> <<"(">>, kind |-> "OpenParen"],
      [lexeme |-> <<")">>, kind |-> "CloseParen"],
      [lexeme |-> <<"{">>, kind |-> "OpenBrace"],
      [lexeme |-> <<"}">>, kind |-> "CloseBrace"],
      [lexeme |-> <<",">>, kind |-> "Comma"],
      [lexeme |-> <<".">>, kind |-> "Dot"],
      [lexeme |-> <<";">>, kind |-> "Semicolon"] }

max_lexeme_len(table) ==
    CHOOSE n \in {Len(e.lexeme) : e \in table} :
        \A e \in table : Len(e.lexeme) <= n

(* Candidates of length n first, then shorter ones; nothing is consumed    *)
(* unless a lexeme matches.                                                *)
RECURSIVE prefix_lookup(_, _, _, _)
prefix_lookup(table, s, p, n) ==
    IF n = 0 THEN [res |-> "none", kind |-> "", pos |-> p]
    ELSE IF \E e \in table : Len(e.lexeme) = n /\ starts_with(s, p, e.lexeme)
    THEN LET e == CHOOSE x \in table : Len(x.lexeme) = n /\ starts_with(s, p, x.lexeme)
         IN [res |-> "some", kind |-> e.kind, pos |-> p + n]
    ELSE prefix_lookup(table, s, p, n - 1)

try_parse_from_prefix_lookup(table, s, p) ==
    prefix_lookup(table, s, p, max_lexeme_len(table))

try_parse_operator(s, p) ==
    LET m == try_parse_from_prefix_lookup(OperatorTable, s, p) IN
    IF m.res = "some"
    THEN SomeAt(<<Tok("Operator", m.kind, <<>>, <<>>)>>, m.pos)
    ELSE NoneAt(p)

try_parse_punctuation(s, p) ==
    LET m == try_parse_from_prefix_lookup(PunctuationTable, s, p) IN
    IF m.res = "some"
    THEN SomeAt(<<Tok("Punctuation", m.kind, <<>>, <<>>)>>, m.pos)
    ELSE NoneAt(p)

----------------------------------------------------------------------------
(* The sub-lexers tokenize calls whose bodies are in comment.rs, ident.rs, *)
(* num.rs, string.rs and template.rs.  Block comments, escape sequences    *)
(* and exponents are outside the explored inputs.                          *)

(* The first position at or after p that holds a line terminator, or the   *)
(* end of the text.                                                        *)
RECURSIVE line_end(_, _)
line_end(s, p) ==
    IF p > Len(s) \/ is_line_terminator(s[p]) THEN p ELSE line_end(s, p + 1)

try_parse_hashbang_comment(s, p) ==
    IF starts_with(s, p, <<"#", "!">>)
    THEN LET q == line_end(s, p + 2) IN
         SomeAt(<<Tok("Comment", "Hashbang", SubSeq(s, p + 2, q - 1), <<>>)>>, q)
    ELSE NoneAt(p)

try_parse_comment(s, p) ==
    IF starts_with(s, p, <<"/", "/">>)
    THEN LET q == line_end(s, p + 2) IN
         SomeAt(<<Tok("Comment", "Line", SubSeq(s, p + 2, q - 1), <<>>)>>, q)
    ELSE NoneAt(p)

is_ident_start(c) == is_alphabetic(c) \/ c \in {"_", "$"}

is_ident_continue(c) == is_alphabetic(c) \/ c \in Digits

RECURSIVE ident_end(_, _)
ident_end(s, p) ==
    IF p <= Len(s) /\ is_ident_continue(s[p]) THEN ident_end(s, p + 1) ELSE p

Keywords ==
    { <<"c", "o", "n", "s", "t">>, <<"e", "x", "p", "o", "r", "t">>,
      <<"r", "e", "t", "u", "r", "n">>,
      <<"f", "u", "n", "c", "t", "i", "o", "n">> }

ValueLiterals ==
    { <<"t", "r", "u", "e">>, <<"f", "a", "l", "s", "e">>, <<"n", "u", "l", "l">>,
      <<"u", "n", "d", "e", "f", "i", "n", "e", "d">> }

WordOperators ==
    { <<"a", "w", "a", "i", "t">>, <<"t", "y", "p", "e", "o", "f">> }

(* IdentParseResult: the variant the lexeme is classified as.              *)
classify_ident(w) ==
    IF w \in Keywords THEN "Keyword"
    ELSE IF w \in ValueLiterals THEN "ValueLiteral"
    ELSE IF w \in WordOperators THEN "Operator"
    ELSE "Ident"

try_parse_identifier(s, p) ==
    IF p <= Len(s) /\ is_ident_start(s[p])
    THEN LET q == ident_end(s, p + 1)
             w == SubSeq(s, p, q - 1)
         IN SomeAt(<<Tok(classify_ident(w), "", w, <<>>)>>, q)
    ELSE NoneAt(p)

RECURSIVE digits_end(_, _)
digits_end(s, p) ==
    IF p <= Len(s) /\ s[p] \in Digits THEN digits_end(s, p + 1) ELSE p

try_parse_number(s, p) ==
    IF p <= Len(s) /\ s[p] \in Digits
    THEN LET q == digits_end(s, p + 1)
             r == IF peek(s, q) = "." /\ peek(s, q + 1) \in Digits
                  THEN digits_end(s, q + 2) ELSE q
         IN SomeAt(<<Tok("NumericLiteral", "", SubSeq(s, p, r - 1), <<>>)>>, r)
    ELSE NoneAt(p)

RECURSIVE string_end(_, _, _)
string_end(s, p, quote) ==
    IF p > Len(s) THEN 0
    ELSE IF s[p] = quote THEN p
    ELSE string_end(s, p + 1, quote)

try_parse_string(s, p) ==
    IF peek(s, p) \in {"\"", "'"}
    THEN LET q == string_end(s, p + 1, s[p]) IN
         IF q = 0 THEN ErrAt("Unterminated string literal", "", Len(s) + 1)
         ELSE SomeAt(<<Tok("StringLiteral", "", SubSeq(s, p + 1, q - 1), <<>>)>>, q + 1)
    ELSE NoneAt(p)

(* A string segment of a template literal, scanned from p: up to the       *)
(* closing backtick (a final segment) or up to "${".                       *)
RECURSIVE template_segment(_, _, _)
template_segment(s, p, lexeme) ==
    IF p > Len(s) THEN ErrAt("Unterminated template literal", "", p)
    ELSE IF s[p] = Backtick
    THEN SomeAt(<<Tok("TemplateLiteralString", "final", lexeme, <<>>)>>, p + 1)
    ELSE IF starts_with(s, p, <<"$", "{">>)
    THEN SomeAt(<<Tok("TemplateLiteralString", "open", lexeme, <<>>),
                  Tok("TemplateLiteralExprOpen", "", <<>>, <<>>)>>, p + 2)
    ELSE template_segment(s, p + 1, Append(lexeme, s[p]))

try_parse_template_literal_start(s, p) ==
    IF peek(s, p) = Backtick THEN template_segment(s, p + 1, <<>>) ELSE NoneAt(p)

(* The recognizer is handed the cursor alone: it closes the expression at  *)
(* the brace under the cursor.                                             *)
try_parse_template_literal_expr_end(s, p) ==
    IF peek(s, p) = "}"
    THEN LET seg == template_segment(s, p + 1, <<>>) IN
         IF seg.res = "err" THEN seg
         ELSE SomeAt(<<Tok("TemplateLiteralExprClose", "", <<>>, <<>>)>> \o seg.toks,
                     seg.pos)
    ELSE NoneAt(p)

----------------------------------------------------------------------------
(* The explored source texts.                                              *)

(* All texts over alphabet A of at most n characters.                      *)
Strings(A, n) == UNION {[1..k -> A] : k \in 0..n}

Alphabet ==
    {"/", "i", "=", "(", ")", ",", "{", "}", Backtick, " ", ".", "1", "\""}

TemplateAlphabet == {Backtick, "$", "{", "}"}

RegexAlphabet == {"/", "i", "z", "\n", "\\"}

HashbangAlphabet == {"#", "!", "i", " ", "\n"}

TailAlphabet == {" ", "/", "i", ";"}

(* One lexeme of each kind of token that can precede the tail.             *)
Heads ==
    { <<"c", "o", "n", "s", "t">>, <<"t", "r", "u", "e">>,
      <<"a", "w", "a", "i", "t">>, <<"=">>, <<"(">>, <<")">>, <<",">>, <<"1">>,
      <<"/", "/", "\n">> }

(* The inputs of the tests of mod.rs (the first, and two lines of the      *)
(* second).                                                                *)
ModTestSources ==
    { <<"\n", " ", "(", "1", ")", " ", "/", " ", "2", "\n", " ">>,
      <<"c", "o", "n", "s", "t", " ", "a", " ", "=", " ", Backtick, "m", "y", " ", "t", "e", "m", "p", "l", "a", "t", "e", ":", " ", "$", "{", "b", "}", Backtick, ";">>,
      <<"r", "e", "t", "u", "r", "n", " ", "a", "w", "a", "i", "t", " ", "/", "h", "e", "l", "l", "o", "/", "g", "m", ".", "t", "e", "s", "t", "(">> }

(* The inputs of the tests of regex.rs.                                    *)
RegexTestSources ==
    { <<"/", "f", "o", "o", "/", "g">>,
      <<"/", "f", "o", "o", "/">>,
      <<"/", "f", "o", "o", "/", "z">>,
      <<"/", "f", "o", "o", "\n", "/", "z">>,
      <<"/", "f", "o", "o", "/", "g", ".">> }

(* The inputs of the tests of operator.rs.                                 *)
OperatorTestSources ==
    { <<"+">>,
      <<"=">>,
      <<"=", "=">>,
      <<"=", "=", "=">>,
      <<"f", "o", "o">> }

Sources ==
    Strings(Alphabet, MaxLen)
        \cup Strings(TemplateAlphabet, MaxTemplateLen)
        \cup Strings(RegexAlphabet, MaxRegexLen)
        \cup Strings(HashbangAlphabet, MaxHashbangLen)
        \cup {h \o t : h \in Heads, t \in Strings(TailAlphabet, MaxTail)}
        \cup ModTestSources
        \cup RegexTestSources
        \cup OperatorTestSources

----------------------------------------------------------------------------
(* mod.rs: tokenize.                                                       *)

NoDiag == [msg |-> "", arg |-> "", pos |-> 0]

Init ==
    /\ src \in Sources
    /\ pos = 1
    /\ tokens = <<>>
    /\ template_depth = 0
    /\ result = "running"
    /\ diag = NoDiag
    /\ returned = <<>>
    /\ rec = "start"
    /\ tried = <<>>

(* The inputs on which the return of tokenize is checked: the inputs of    *)
(* the tests and every short text.                                        *)
ShortSources ==
    ModTestSources \cup RegexTestSources \cup OperatorTestSources
        \cup Strings(Alphabet, MaxShortLen)
        \cup Strings(HashbangAlphabet, MaxShortLen)
        \cup Strings(TemplateAlphabet, MaxShortLen + 2)

InitShort ==
    /\ src \in ShortSources
    /\ pos = 1
    /\ tokens = <<>>
    /\ template_depth = 0
    /\ result = "running"
    /\ diag = NoDiag
    /\ returned = <<>>
    /\ rec = "start"
    /\ tried = <<>>

(* Order with the punctuation recognizer tried before the expression       *)
(* closer.                                                                 *)
Order_punctuation_before_closer ==
    <<"hashbang", "whitespace", "comment", "template_start", "identifier",
      "punctuation", "template_expr_end", "regex", "string", "number",
      "operator">>

(* The recognizers in the order the loop body tries them.                  *)
Order ==
    <<"hashbang", "whitespace", "comment", "template_start", "identifier",
      "template_expr_end", "regex", "string", "number", "punctuation",
      "operator">>

Index(name) == CHOOSE i \in 1..Len(Order) : Order[i] = name

(* Attempted without the template_depth > 0 test.                          *)
Attempted_at_any_depth(name) ==
    CASE name = "hashbang" -> tokens = <<>>
      [] OTHER -> TRUE

(* Attempted without the tokens.is_empty() test.                           *)
Attempted_hashbang_anywhere(name) ==
    CASE name = "template_expr_end" -> template_depth > 0
      [] OTHER -> TRUE

(* The condition under which the loop body calls the recognizer at all.    *)
Attempted(name) ==
    CASE name = "hashbang" -> tokens = <<>>
      [] name = "template_expr_end" -> template_depth > 0
      [] OTHER -> TRUE

(* Call with the whitespace step looking at the character (peek) without   *)
(* taking it (next).                                                       *)
Call_peeking_whitespace(name, p) ==
    CASE name = "hashbang" -> try_parse_hashbang_comment(src, p)
      [] name = "whitespace" ->
            IF is_whitespace(peek(src, p)) THEN SomeAt(<<>>, p)
            ELSE NoneAt(p)
      [] name = "comment" -> try_parse_comment(src, p)
      [] name = "template_start" -> try_parse_template_literal_start(src, p)
      [] name = "identifier" -> try_parse_identifier(src, p)
      [] name = "template_expr_end" -> try_parse_template_literal_expr_end(src, p)
      [] name = "regex" -> try_parse_regex_literal(src, p, last(tokens))
      [] name = "string" -> try_parse_string(src, p)
      [] name = "number" -> try_parse_number(src, p)
      [] name = "punctuation" -> try_parse_punctuation(src, p)
      [] name = "operator" -> try_parse_operator(src, p)

(* What the recognizer returns with the cursor at p.                       *)
Call(name, p) ==
    CASE name = "hashbang" -> try_parse_hashbang_comment(src, p)
      [] name = "whitespace" ->
            IF is_whitespace(peek(src, p)) THEN SomeAt(<<>>, p + 1)
            ELSE NoneAt(p)
      [] name = "comment" -> try_parse_comment(src, p)
      [] name = "template_start" -> try_parse_template_literal_start(src, p)
      [] name = "identifier" -> try_parse_identifier(src, p)
      [] name = "template_expr_end" -> try_parse_template_literal_expr_end(src, p)
      [] name = "regex" -> try_parse_regex_literal(src, p, last(tokens))
      [] name = "string" -> try_parse_string(src, p)
      [] name = "number" -> try_parse_number(src, p)
      [] name = "punctuation" -> try_parse_punctuation(src, p)
      [] name = "operator" -> try_parse_operator(src, p)

Outcome(name, p) == IF Attempted(name) THEN Call(name, p) ELSE NoneAt(p)

(* The if-let chain from the i-th recognizer on, the cursor at p: the      *)
(* index of the first recognizer that does not return None and what it     *)
(* returns, each recognizer seeing the cursor as the ones before left it;  *)
(* index Len(Order) + 1 when all return None.                              *)
Dispatch[i \in 1..(Len(Order) + 1), p \in 1..(Len(src) + 1)] ==
    IF i > Len(Order) THEN [idx |-> i, out |-> NoneAt(p)]
    ELSE LET r == Outcome(Order[i], p) IN
         IF r.res # "none" THEN [idx |-> i, out |-> r]
         ELSE Dispatch[i + 1, r.pos]

(* Control reaches a recognizer when every one before it returned None.    *)
Reaches(i) == Dispatch[1, pos].idx >= i

(* The recognizers the iteration has called when it is at the i-th.        *)
TriedUpTo(i) == SelectSeq(SubSeq(Order, 1, i), Attempted)

(* template_depth after the recognizer returned Some(r).                   *)
depth_after(name, r) ==
    IF name = "template_start" THEN template_depth + 1
    ELSE IF name = "template_expr_end"
    THEN IF last(r.toks).type = "TemplateLiteralExprOpen"
         THEN (template_depth - 1) + 1
         ELSE template_depth - 1
    ELSE template_depth

(* Recognize with error recovery: on Err the diagnostic is recorded, one   *)
(* character is skipped and the loop goes on.                              *)
Recognize_recovering(name) ==
    /\ result = "running"
    /\ pos <= Len(src)
    /\ Attempted(name)
    /\ LET d == Dispatch[1, pos]
           r == d.out
       IN
       /\ d.idx = Index(name)
       /\ tried' = TriedUpTo(Index(name))
       /\ IF r.res = "some"
          THEN /\ tokens' = tokens \o r.toks
               /\ pos' = r.pos
               /\ template_depth' = depth_after(name, r)
               /\ UNCHANGED <<result, diag>>
          ELSE /\ pos' = pos + 1
               /\ diag' = [msg |-> r.msg, arg |-> r.arg, pos |-> r.pos]
               /\ UNCHANGED <<tokens, result, template_depth>>
    /\ UNCHANGED <<src, returned>>

(* Recognize without the push of the TemplateLiteralString that follows a  *)
(* TemplateLiteralExprClose.                                               *)
Recognize_dropping_template_string(name) ==
    /\ result = "running"
    /\ pos <= Len(src)
    /\ Attempted(name)
    /\ LET d == Dispatch[1, pos]
           r == d.out
           IsNotTemplateString(t) == t.type # "TemplateLiteralString"
       IN
       /\ d.idx = Index(name)
       /\ tried' = TriedUpTo(Index(name))
       /\ IF r.res = "some"
          THEN /\ tokens' = IF name = "template_expr_end"
                            THEN tokens \o SelectSeq(r.toks, IsNotTemplateString)
                            ELSE tokens \o r.toks
               /\ pos' = r.pos
               /\ template_depth' = depth_after(name, r)
               /\ UNCHANGED <<result, diag>>
          ELSE /\ result' = "err"
               /\ diag' = [msg |-> r.msg, arg |-> r.arg, pos |-> r.pos]
               /\ UNCHANGED <<tokens, pos, template_depth>>
    /\ UNCHANGED <<src, returned>>

(* One iteration of 'outer that ends at recognizer name: with continue     *)
(* 'outer when it returned Some, with return Err when it returned Err.     *)
Recognize(name) ==
    /\ result = "running"
    /\ pos <= Len(src)
    /\ Attempted(name)
    /\ LET d == Dispatch[1, pos]
           r == d.out
       IN
       /\ d.idx = Index(name)
       /\ tried' = TriedUpTo(Index(name))
       /\ IF r.res = "some"
          THEN /\ tokens' = tokens \o r.toks
               /\ pos' = r.pos
               /\ template_depth' = depth_after(name, r)
               /\ UNCHANGED <<result, diag>>
          ELSE /\ result' = "err"
               /\ diag' = [msg |-> r.msg, arg |-> r.arg, pos |-> r.pos]
               /\ UNCHANGED <<tokens, pos, template_depth>>
    /\ UNCHANGED <<src, returned>>

Hashbang ==
    /\ Recognize("hashbang")
    /\ rec' = "hashbang"

SkipWhitespace ==
    /\ Recognize("whitespace")
    /\ rec' = "whitespace"

Comment ==
    /\ Recognize("comment")
    /\ rec' = "comment"

TemplateStart ==
    /\ Recognize("template_start")
    /\ rec' = "template_start"

Identifier ==
    /\ Recognize("identifier")
    /\ rec' = "identifier"

TemplateExprEnd ==
    /\ Recognize("template_expr_end")
    /\ rec' = "template_expr_end"

RegexLiteral ==
    /\ Recognize("regex")
    /\ rec' = "regex"

StringLiteral ==
    /\ Recognize("string")
    /\ rec' = "string"

NumericLiteral ==
    /\ Recognize("number")
    /\ rec' = "number"

Punctuation ==
    /\ Recognize("punctuation")
    /\ rec' = "punctuation"

Operator ==
    /\ Recognize("operator")
    /\ rec' = "operator"

(* Unrecognized skipping the character instead of returning Err.           *)
Unrecognized_skipping ==
    /\ result = "running"
    /\ pos <= Len(src)
    /\ LET d == Dispatch[1, pos] IN
       /\ d.idx = Len(Order) + 1
       /\ pos' = d.out.pos + 1
    /\ rec' = "unrecognized"
    /\ tried' = TriedUpTo(Len(Order))
    /\ UNCHANGED <<src, result, diag, tokens, template_depth, returned>>

(* No recognizer claimed the position: return Err.                         *)
Unrecognized ==
    /\ result = "running"
    /\ pos <= Len(src)
    /\ LET d == Dispatch[1, pos] IN
       /\ d.idx = Len(Order) + 1
       /\ diag' = [msg |-> "Unrecognized token",
                   arg |-> IF peek(src, d.out.pos) = "EOF" THEN "?"
                           ELSE peek(src, d.out.pos),
                   pos |-> d.out.pos]
    /\ result' = "err"
    /\ rec' = "unrecognized"
    /\ tried' = TriedUpTo(Len(Order))
    /\ UNCHANGED <<src, pos, tokens, template_depth, returned>>

(* chars.peek().is_none(): break and return Ok(tokens).                    *)
Finish ==
    /\ result = "running"
    /\ pos > Len(src)
    /\ result' = "ok"
    /\ returned' = tokens
    /\ rec' = "finish"
    /\ tried' = <<>>
    /\ UNCHANGED <<src, pos, tokens, template_depth, diag>>

Next ==
    \/ Hashbang
    \/ SkipWhitespace
    \/ Comment
    \/ TemplateStart
    \/ Identifier
    \/ TemplateExprEnd
    \/ RegexLiteral
    \/ StringLiteral
    \/ NumericLiteral
    \/ Punctuation
    \/ Operator
    \/ Unrecognized
    \/ Finish

Spec == Init /\ [][Next]_vars

(* tokenize is one sequential call: while it has not returned, its next    *)
(* step is taken.                                                          *)
FairSpec == InitShort /\ [][Next]_vars /\ WF_vars(Next)

----------------------------------------------------------------------------
(* Properties.                                                             *)

Await == <<"a", "w", "a", "i", "t">>

(* The set of previous tokens after which a "/" opens a regex literal.     *)
OpensRegexAfter(previous_token) ==
    \/ previous_token = NoToken
    \/ previous_token.type = "Operator"
    \/ /\ previous_token.type = "Punctuation"
       /\ previous_token.kind \in {"Comma", "OpenParen"}

(* One token of every variant of Token, and of every punctuation kind.     *)
PreviousTokens ==
    { NoToken,
      Tok("Keyword", "", <<"c", "o", "n", "s", "t">>, <<>>),
      Tok("Ident", "", <<"i">>, <<>>),
      Tok("ValueLiteral", "", <<"t", "r", "u", "e">>, <<>>),
      Tok("Operator", "", Await, <<>>),
      Tok("Operator", "Assignment", <<>>, <<>>),
      Tok("Comment", "Line", <<>>, <<>>),
      Tok("NumericLiteral", "", <<"1">>, <<>>),
      Tok("StringLiteral", "", <<>>, <<>>),
      Tok("TemplateLiteralString", "final", <<>>, <<>>),
      Tok("TemplateLiteralString", "open", <<>>, <<>>),
      Tok("TemplateLiteralExprOpen", "", <<>>, <<>>),
      Tok("TemplateLiteralExprClose", "", <<>>, <<>>),
      Tok("RegexLiteral", "", <<"i">>, <<>>) }
        \cup {Tok("Punctuation", k, <<>>, <<>>) :
                 k \in {"OpenParen", "CloseParen", "OpenBrace", "CloseBrace",
                        "Comma", "Dot", "Semicolon"}}

(* C1: with a "/" under the cursor, try_parse_regex_literal commits to a   *)
(* regex literal (returns Some or Err) exactly when the last emitted token *)
(* is absent, an Operator, or a Comma or OpenParen Punctuation, and        *)
(* returns Ok(None) after every other token; the driver pushes a regex     *)
(* token only after such a token.                                          *)
C1_RegexOpensIffPrevAllowed ==
    /\ rec = "start" =>
          \A p \in 1..Len(src) : \A previous \in PreviousTokens :
             src[p] = "/" =>
                LET r == try_parse_regex_literal(src, p, previous) IN
                /\ (r.res # "none") <=> OpensRegexAfter(previous)
                /\ ~OpensRegexAfter(previous) => r = NoneAt(p)
    /\ (result = "running" /\ peek(src, pos) = "/") =>
          LET r == try_parse_regex_literal(src, pos, last(tokens)) IN
          /\ (r.res # "none") <=> OpensRegexAfter(last(tokens))
          /\ ~OpensRegexAfter(last(tokens)) => r = NoneAt(pos)
    /\ (rec = "regex" /\ result = "running") =>
          /\ last(tokens).type = "RegexLiteral"
          /\ OpensRegexAfter(last(SubSeq(tokens, 1, Len(tokens) - 1)))
    /\ (rec = "regex" /\ result = "err") => OpensRegexAfter(last(tokens))

(* A regex literal was pushed right after the word-shaped operator await.  *)
C1_Witness ==
    /\ rec = "regex"
    /\ result = "running"
    /\ Len(tokens) >= 2
    /\ tokens[Len(tokens) - 1] = Tok("Operator", "", Await, <<>>)
    /\ last(tokens).type = "RegexLiteral"

RegexPrecedenceSource ==
    <<"\n", " ", "(", "1", ")", " ", "/", " ", "2", "\n", " ">>

(* C2: a "/" after a token outside the regex-allowed set, not starting a   *)
(* comment, is recognized by the operator recognizer as Division, and      *)
(* "(1) / 2" tokenizes to OpenParen, Number(1), CloseParen, Division,      *)
(* Number(2).                                                              *)
C2_SlashAfterOperandIsDivision ==
    /\ ( /\ result = "running"
         /\ peek(src, pos) = "/"
         /\ peek(src, pos + 1) # "/"
         /\ ~OpensRegexAfter(last(tokens)) ) =>
          /\ try_parse_regex_literal(src, pos, last(tokens)) = NoneAt(pos)
          /\ try_parse_operator(src, pos)
                = SomeAt(<<Tok("Operator", "Division", <<>>, <<>>)>>, pos + 1)
    /\ (src = RegexPrecedenceSource /\ result # "running") =>
          /\ result = "ok"
          /\ tokens = << Tok("Punctuation", "OpenParen", <<>>, <<>>),
                         Tok("NumericLiteral", "", <<"1">>, <<>>),
                         Tok("Punctuation", "CloseParen", <<>>, <<>>),
                         Tok("Operator", "Division", <<>>, <<>>),
                         Tok("NumericLiteral", "", <<"2">>, <<>>) >>

(* The lexemes the operator table declares, as the source lists them.      *)
DeclaredOperators ==
    { <<<<"+">>, "Plus">>, <<<<"=">>, "Assignment">>,
      <<<<"=", "=">>, "LooseEquality">>, <<<<"=", "=", "=">>, "StrictEquality">> }

(* The declared lexemes that are a prefix of the text at p.                *)
OperatorPrefixes(s, p) == {d \in DeclaredOperators : starts_with(s, p, d[1])}

LongestOperatorPrefix(s, p) ==
    CHOOSE d \in OperatorPrefixes(s, p) :
        \A e \in OperatorPrefixes(s, p) : Len(e[1]) <= Len(d[1])

(* C3: at every position of every explored text where some lexeme of the   *)
(* operator table starts, try_parse_operator returns the kind of the       *)
(* longest such lexeme and leaves the cursor right after it; the driver    *)
(* pushes exactly that one token.                                          *)
C3_OperatorLongestMatch ==
    /\ \A p \in 1..Len(src) :
          OperatorPrefixes(src, p) # {} =>
             LET d == LongestOperatorPrefix(src, p) IN
             try_parse_operator(src, p)
                = SomeAt(<<Tok("Operator", d[2], <<>>, <<>>)>>, p + Len(d[1]))
    /\ (rec = "operator" /\ src = <<"=", "=", "=">>) =>
          tokens = <<Tok("Operator", "StrictEquality", <<>>, <<>>)>> /\ pos = 4
    /\ (rec = "operator" /\ src = <<"=", "=">>) =>
          tokens = <<Tok("Operator", "LooseEquality", <<>>, <<>>)>> /\ pos = 3
    /\ (rec = "operator" /\ src = <<"=">>) =>
          tokens = <<Tok("Operator", "Assignment", <<>>, <<>>)>> /\ pos = 2

(* "===" was tokenized.                                                    *)
C3_Witness ==
    /\ src = <<"=", "=", "=">>
    /\ rec = "operator"
    /\ result = "running"
    /\ pos = 4

(* How many tokens of the given type the sequence holds.                   *)
Count(toks, type) == Cardinality({k \in 1..Len(toks) : toks[k].type = type})

(* C4: template_depth is never negative and equals the number of           *)
(* TemplateLiteralExprOpen tokens emitted minus the number of              *)
(* TemplateLiteralExprClose tokens emitted.                                *)
C4_DepthCountsOpenExpressions ==
    /\ template_depth >= 0
    /\ template_depth = Count(tokens, "TemplateLiteralExprOpen")
                           - Count(tokens, "TemplateLiteralExprClose")

(* C5: when tokenize returns Ok (every template literal of the source was  *)
(* closed by its backtick, or the call would have failed), template_depth  *)
(* is 0.                                                                   *)
C5_DepthZeroAtSuccessfulEnd == result = "ok" => template_depth = 0

(* The braces opened and not yet closed in each embedded expression that   *)
(* is open after the first k tokens, innermost last.                       *)
RECURSIVE BraceStack(_, _)
BraceStack(toks, k) ==
    IF k = 0 THEN <<>>
    ELSE LET st == BraceStack(toks, k - 1)
             t == toks[k]
         IN IF t.type = "TemplateLiteralExprOpen" THEN Append(st, 0)
            ELSE IF st = <<>> THEN st
            ELSE IF t.type = "TemplateLiteralExprClose"
            THEN SubSeq(st, 1, Len(st) - 1)
            ELSE IF t = Tok("Punctuation", "OpenBrace", <<>>, <<>>)
            THEN [st EXCEPT ![Len(st)] = @ + 1]
            ELSE IF t = Tok("Punctuation", "CloseBrace", <<>>, <<>>)
            THEN [st EXCEPT ![Len(st)] = @ - 1]
            ELSE st

(* C6: a TemplateLiteralExprClose is emitted inside an embedded expression *)
(* only when no brace opened within that expression is still open.         *)
C6_CloserOnlyAtZeroBraceBalance ==
    \A k \in 1..Len(tokens) :
        tokens[k].type = "TemplateLiteralExprClose" =>
            LET st == BraceStack(tokens, k - 1) IN
            st # <<>> => st[Len(st)] = 0

(* The priority order of the recognizers.                                  *)
PriorityOrder ==
    <<"hashbang", "whitespace", "comment", "template_start", "identifier",
      "template_expr_end", "regex", "string", "number", "punctuation",
      "operator">>

(* What a recognizer would return at the cursor, were it tried under the   *)
(* two conditions of the order.                                            *)
WouldReturn(name) ==
    IF name = "hashbang" /\ tokens # <<>> THEN NoneAt(pos)
    ELSE IF name = "template_expr_end" /\ ~(template_depth > 0) THEN NoneAt(pos)
    ELSE Call(name, pos)

Claiming == {i \in 1..Len(PriorityOrder) : WouldReturn(PriorityOrder[i]).res # "none"}

FirstClaiming == CHOOSE i \in Claiming : \A j \in Claiming : i <= j

(* C7: in every iteration with input left, the recognizer that acts is the *)
(* first of the priority order that does not return None; when it succeeds *)
(* exactly its tokens are appended, the cursor moves to where it stopped   *)
(* and the loop goes on.                                                   *)
C7_FixedPriorityOrder ==
    [][ (result = "running" /\ pos <= Len(src)) =>
          IF Claiming = {}
          THEN rec' = "unrecognized" /\ result' = "err"
          ELSE LET r == WouldReturn(PriorityOrder[FirstClaiming]) IN
               /\ rec' = PriorityOrder[FirstClaiming]
               /\ r.res = "some" =>
                     /\ tokens' = tokens \o r.toks
                     /\ pos' = r.pos
                     /\ result' = "running"
               /\ r.res = "err" => result' = "err" /\ tokens' = tokens ]_vars

(* A comment was recognized at the start of a text that the regex          *)
(* recognizer, tried first, would have taken as a regex literal.           *)
C7_Witness ==
    /\ rec = "comment"
    /\ Len(tokens) = 1
    /\ try_parse_regex_literal(src, 1, NoToken).res = "some"

Range(f) == {f[k] : k \in DOMAIN f}

Position(f, x) == CHOOSE k \in DOMAIN f : f[k] = x

(* C8 as stated: the expression closer is tried at a position only after   *)
(* every other recognizer has returned None there.                         *)
C8_CloserTriedLast ==
    [][ "template_expr_end" \in Range(tried') =>
          \A name \in Range(PriorityOrder) \ {"template_expr_end"} :
              WouldReturn(name).res = "none" ]_vars

(* C8 amended: the expression closer is tried only while template_depth is *)
(* positive, after the whitespace, comment, template-start and identifier  *)
(* recognizers returned None at the position, and before the regex,        *)
(* string, numeric, punctuation and operator recognizers are tried.        *)
C8_CloserTriedAfterIdentifierBeforeRegex ==
    [][ "template_expr_end" \in Range(tried') =>
          /\ template_depth > 0
          /\ \A name \in {"hashbang", "whitespace", "comment", "template_start",
                          "identifier"} :
                WouldReturn(name).res = "none"
          /\ \A name \in {"regex", "string", "number", "punctuation", "operator"} :
                name \in Range(tried') =>
                   Position(tried', "template_expr_end") < Position(tried', name)
          /\ (WouldReturn("template_expr_end").res # "none") =>
                rec' = "template_expr_end" ]_vars

(* An expression was closed at a "}" that the punctuation recognizer would *)
(* also have taken.                                                        *)
C8_Witness ==
    /\ rec = "template_expr_end"
    /\ result = "running"
    /\ template_depth = 0
    /\ Count(tokens, "TemplateLiteralExprOpen") = 1

FlagLetters == {"g", "i", "m", "s", "u", "y"}

(* The least position from p on that satisfies Stop, or the end of text.   *)
FirstFrom(s, p, Stop(_)) ==
    CHOOSE q \in p..(Len(s) + 1) :
        /\ q = Len(s) + 1 \/ Stop(s[q])
        /\ \A k \in p..(q - 1) : ~Stop(s[k])

IsPatternStop(c) == c = "/" \/ is_line_terminator(c)

IsNotFlag(c) == c \notin FlagLetters

(* The position of the "/" closing the regex literal opened at p, or 0.    *)
ClosingSlash(s, p) ==
    LET c == FirstFrom(s, p + 1, IsPatternStop) IN
    IF c <= Len(s) /\ s[c] = "/" THEN c ELSE 0

(* C9: when the run of flag letters after the closing "/" is ended by an   *)
(* alphabetic character, try_parse_regex_literal returns the "Invalid      *)
(* regular expression flag" diagnostic naming that character instead of a  *)
(* RegexLiteral, and tokenize fails with it.                               *)
C9_InvalidFlagIsDiagnosed ==
    /\ rec = "start" =>
          \A p \in 1..Len(src) :
             (src[p] = "/" /\ ClosingSlash(src, p) # 0) =>
                LET e == FirstFrom(src, ClosingSlash(src, p) + 1, IsNotFlag) IN
                (e <= Len(src) /\ is_alphabetic(src[e])) =>
                   try_parse_regex_literal(src, p, NoToken)
                      = ErrAt("Invalid regular expression flag", src[e], e)
    /\ (src = <<"/", "f", "o", "o", "/", "z">> /\ result # "running") =>
          /\ result = "err"
          /\ diag = [msg |-> "Invalid regular expression flag", arg |-> "z", pos |-> 6]
          /\ tokens = <<>>

(* tokenize failed on a flag run that a non-flag letter ends.              *)
C9_Witness ==
    /\ rec = "regex"
    /\ result = "err"
    /\ diag.msg = "Invalid regular expression flag"
    /\ diag.arg = "z"
    /\ diag.pos > 1
    /\ src[diag.pos - 1] \in FlagLetters

(* C10: a returned RegexLiteral carries as flags exactly the maximal run   *)
(* of flag letters after the closing "/", the cursor is left on the first  *)
(* character after the run, and that character is not alphabetic or is     *)
(* the end of input.                                                       *)
C10_FlagsAreMaximalRunCursorAfter ==
    /\ rec = "start" =>
          \A p \in 1..Len(src) :
             LET r == try_parse_regex_literal(src, p, NoToken) IN
             (src[p] = "/" /\ r.res = "some") =>
                LET c == ClosingSlash(src, p)
                    e == FirstFrom(src, c + 1, IsNotFlag)
                IN /\ c # 0
                   /\ r.toks[1].flags = SubSeq(src, c + 1, e - 1)
                   /\ r.pos = e
                   /\ e = Len(src) + 1 \/ ~is_alphabetic(src[e])
    /\ (rec = "regex" /\ result = "running") =>
          /\ \A k \in 1..Len(last(tokens).flags) :
                /\ last(tokens).flags[k] \in FlagLetters
                /\ last(tokens).flags[k] = src[pos - Len(last(tokens).flags) + k - 1]
          /\ src[pos - Len(last(tokens).flags) - 1] = "/"
          /\ peek(src, pos) \notin FlagLetters
          /\ ~is_alphabetic(peek(src, pos)) \/ peek(src, pos) = "EOF"
    /\ (src = <<"/", "f", "o", "o", "/", "g", ".">> /\ rec = "regex") =>
          /\ tokens = <<Tok("RegexLiteral", "", <<"f", "o", "o">>, <<"g">>)>>
          /\ peek(src, pos) = "."

(* A regex literal with a non-empty flag run was pushed and a character    *)
(* that is no flag is left under the cursor.                               *)
C10_Witness ==
    /\ rec = "regex"
    /\ result = "running"
    /\ last(tokens).flags # <<>>
    /\ pos <= Len(src)

LineTerminatorMsg == "Unexpected line terminator while parsing regular expression"

EofMsg == "Unexpected EOF while parsing regular expression"

(* C11: when a line terminator comes after the opening "/" of a regex      *)
(* literal and before any closing "/", try_parse_regex_literal returns the *)
(* "Unexpected line terminator" diagnostic, whatever follows the           *)
(* terminator; "/foo\n/z" fails with it and not with the diagnostic of the *)
(* flag z.                                                                 *)
C11_LineTerminatorDiagnosedFirst ==
    /\ rec = "start" =>
          \A p \in 1..Len(src) :
             LET q == FirstFrom(src, p + 1, IsPatternStop) IN
             (src[p] = "/" /\ q <= Len(src) /\ is_line_terminator(src[q])) =>
                \A prev \in PreviousTokens :
                   OpensRegexAfter(prev) =>
                      try_parse_regex_literal(src, p, prev)
                         = ErrAt(LineTerminatorMsg, "", q + 1)
    /\ (src = <<"/", "f", "o", "o", "\n", "/", "z">> /\ result # "running") =>
          /\ result = "err"
          /\ diag.msg = LineTerminatorMsg
          /\ tokens = <<>>

(* tokenize failed on a line terminator inside a regex literal that is     *)
(* followed by a closing "/" and the letter z.                             *)
C11_Witness ==
    /\ rec = "regex"
    /\ result = "err"
    /\ diag.msg = LineTerminatorMsg
    /\ starts_with(src, diag.pos, <<"/", "z">>)

(* C12: when the input ends after the opening "/" of a regex literal with  *)
(* neither a closing "/" nor a line terminator, try_parse_regex_literal    *)
(* returns the "Unexpected EOF" diagnostic, never a RegexLiteral and never *)
(* None.                                                                   *)
C12_EofDiagnosed ==
    /\ rec = "start" =>
          \A p \in 1..Len(src) :
             (src[p] = "/" /\ FirstFrom(src, p + 1, IsPatternStop) = Len(src) + 1) =>
                \A prev \in PreviousTokens :
                   OpensRegexAfter(prev) =>
                      try_parse_regex_literal(src, p, prev)
                         = ErrAt(EofMsg, "", Len(src) + 1)
    /\ (rec = "regex" /\ result = "running") =>
          \E c \in 1..(pos - 1) : src[c] = "/" /\ c > 1

(* tokenize failed at the end of input inside a regex literal that has a   *)
(* non-empty unterminated pattern and follows a token.                     *)
C12_Witness ==
    /\ rec = "regex"
    /\ result = "err"
    /\ diag.msg = EofMsg
    /\ diag.pos = Len(src) + 1
    /\ tokens # <<>>
    /\ src[Len(src)] # "/"

(* C13: the first Err a recognizer returns ends tokenize with that         *)
(* diagnostic: the recognizer is the last one called, no step follows, and *)
(* the tokens collected so far are not returned.                           *)
C13_FailFast ==
    /\ [][ /\ (result = "running" /\ pos <= Len(src) /\ Claiming # {}) =>
                LET r == WouldReturn(PriorityOrder[FirstClaiming]) IN
                r.res = "err" =>
                   /\ result' = "err"
                   /\ diag' = [msg |-> r.msg, arg |-> r.arg, pos |-> r.pos]
                   /\ tried'[Len(tried')] = PriorityOrder[FirstClaiming]
                   /\ tokens' = tokens
                   /\ returned' = <<>>
           /\ result = "err" => FALSE ]_vars
    /\ [](result = "err" => returned = <<>>)
    /\ [](result = "ok" => diag = NoDiag)

(* tokenize failed in a recognizer after tokens had been pushed, and       *)
(* returned none of them.                                                  *)
C13_Witness ==
    /\ result = "err"
    /\ rec \in Range(PriorityOrder)
    /\ Len(tokens) >= 2
    /\ returned = <<>>

(* C14: when input is left and no recognizer takes the position, tokenize  *)
(* returns the "Unrecognized token" diagnostic at the cursor, naming the   *)
(* character under it; the cursor does not move and Ok is not returned.    *)
C14_UnrecognizedTokenDiagnosed ==
    /\ [][ (result = "running" /\ pos <= Len(src) /\ Claiming = {}) =>
              /\ result' = "err"
              /\ diag' = [msg |-> "Unrecognized token", arg |-> src[pos], pos |-> pos]
              /\ pos' = pos
              /\ tokens' = tokens
              /\ returned' = <<>> ]_vars
    /\ [](rec = "unrecognized" =>
             /\ result = "err"
             /\ diag.pos = pos
             /\ diag.arg = src[pos]
             /\ diag.arg # "?")

(* tokenize failed with "Unrecognized token" after it had pushed tokens    *)
(* and with input left after the offending character.                      *)
C14_Witness ==
    /\ rec = "unrecognized"
    /\ result = "err"
    /\ diag.msg = "Unrecognized token"
    /\ tokens # <<>>
    /\ diag.pos < Len(src)

(* C15: every iteration of the loop either moves the cursor forward and    *)
(* goes on, or returns with the cursor where it was; Ok(tokens) is         *)
(* returned exactly when the cursor is exhausted; and tokenize returns on  *)
(* every input.                                                            *)
C15_Terminates ==
    /\ [][ /\ result = "running" =>
                \/ result' = "running" /\ pos' > pos
                \/ result' # "running" /\ pos' = pos
           /\ (result = "running" /\ pos > Len(src)) =>
                result' = "ok" /\ returned' = tokens
           /\ (result = "running" /\ pos <= Len(src)) => result' # "ok" ]_vars
    /\ [](pos <= Len(src) + 1)
    /\ [](result = "ok" => pos = Len(src) + 1 /\ returned = tokens)
    /\ <>(result # "running")

(* tokenize returned Ok after iterations that skipped whitespace and       *)
(* pushed tokens.                                                          *)
C15_Witness ==
    /\ result = "ok"
    /\ pos = Len(src) + 1
    /\ Len(returned) >= 2
    /\ \E k \in 1..Len(src) : is_whitespace(src[k])

AfterRegex == {"string", "number", "punctuation", "operator"}

(* C16: try_parse_regex_literal returns None exactly when the previous     *)
(* token does not allow a regex literal or the next character is not "/",  *)
(* and then leaves the cursor where it was; the recognizer that acts after *)
(* it in the iteration works at the position the iteration started at.     *)
C16_RegexNoneLeavesCursor ==
    /\ [](rec = "start" =>
             \A p \in 1..(Len(src) + 1) : \A prev \in PreviousTokens :
                LET r == try_parse_regex_literal(src, p, prev) IN
                /\ r.res = "none" <=> (~OpensRegexAfter(prev) \/ peek(src, p) # "/")
                /\ r.res = "none" => r = NoneAt(p))
    /\ [][ rec' \in AfterRegex =>
              LET r == Call(rec', pos) IN
              /\ try_parse_regex_literal(src, pos, last(tokens)) = NoneAt(pos)
              /\ r.res = "some" =>
                    tokens' = tokens \o r.toks /\ pos' = r.pos
              /\ r.res = "err" =>
                    diag' = [msg |-> r.msg, arg |-> r.arg, pos |-> r.pos] ]_vars
    /\ [][ (rec' = "unrecognized") => diag'.pos = pos /\ diag'.arg = src[pos] ]_vars

(* The regex recognizer was tried after an operator at a character that is *)
(* not "/", and the numeric recognizer then took that character.           *)
C16_Witness ==
    /\ rec = "number"
    /\ Len(tokens) >= 2
    /\ tokens[Len(tokens) - 1].type = "Operator"
    /\ "regex" \in Range(tried)

(* C17: the pattern of a returned RegexLiteral is the text between the     *)
(* opening "/" and the first "/" after it, character for character; it     *)
(* holds no "/" and no line terminator, and a "/" that follows a backslash *)
(* ends it.                                                                *)
C17_PatternVerbatim ==
    /\ rec = "start" =>
          \A p \in 1..Len(src) :
             LET r == try_parse_regex_literal(src, p, NoToken) IN
             (src[p] = "/" /\ r.res = "some") =>
                LET c == ClosingSlash(src, p)
                    pattern == r.toks[1].text
                IN /\ c # 0
                   /\ pattern = SubSeq(src, p + 1, c - 1)
                   /\ \A k \in 1..Len(pattern) :
                         pattern[k] # "/" /\ ~is_line_terminator(pattern[k])
                   /\ \A k \in (p + 1)..(Len(src) - 1) :
                         (src[k] = "\\" /\ src[k + 1] = "/" /\ k < c) => c = k + 1
    /\ (rec = "regex" /\ result = "running") =>
          \A k \in 1..Len(last(tokens).text) :
             last(tokens).text[k] # "/" /\ ~is_line_terminator(last(tokens).text[k])
    /\ (src = <<"/", "f", "o", "o", "/", "g">> /\ rec = "regex") =>
          tokens = <<Tok("RegexLiteral", "", <<"f", "o", "o">>, <<"g">>)>>

(* A regex literal was pushed whose pattern ends with the backslash of an  *)
(* escaped "/", the rest of the text left to the flags and the loop.       *)
C17_Witness ==
    /\ rec = "regex"
    /\ result = "running"
    /\ Len(last(tokens).text) >= 2
    /\ last(tokens).text[Len(last(tokens).text)] = "\\"
    /\ pos <= Len(src)

(* C18: the hashbang recognizer is called only while no token has been    *)
(* pushed, so a hashbang comment can only be the first token of the        *)
(* output; with a token pushed, "#!" under the cursor is not taken as a    *)
(* hashbang comment.                                                       *)
C18_HashbangOnlyFirst ==
    /\ [](\A k \in 1..Len(tokens) :
             (tokens[k].type = "Comment" /\ tokens[k].kind = "Hashbang") => k = 1)
    /\ [][ /\ "hashbang" \in Range(tried') => tokens = <<>>
           /\ rec' = "hashbang" => tokens = <<>> /\ Len(tokens') = 1
           /\ (result = "running" /\ tokens # <<>> /\ starts_with(src, pos, <<"#", "!">>)) =>
                rec' # "hashbang" /\ tokens' = tokens ]_vars

(* With a token pushed, tokenize came to "#!" and did not take it as a     *)
(* hashbang comment.                                                       *)
C18_Witness ==
    /\ rec = "unrecognized"
    /\ tokens # <<>>
    /\ diag.arg = "#"
    /\ starts_with(src, diag.pos, <<"#", "!">>)

(* C19: in the token sequence, every TemplateLiteralExprClose is directly  *)
(* followed by a TemplateLiteralString and every TemplateLiteralExprOpen   *)
(* is directly preceded by one; a TemplateLiteralExprClose is pushed only  *)
(* in an iteration that starts with template_depth above 0.                *)
C19_TemplateTokensAdjacent ==
    /\ [](\A k \in 1..Len(tokens) :
             /\ tokens[k].type = "TemplateLiteralExprClose" =>
                   k < Len(tokens) /\ tokens[k + 1].type = "TemplateLiteralString"
             /\ tokens[k].type = "TemplateLiteralExprOpen" =>
                   k > 1 /\ tokens[k - 1].type = "TemplateLiteralString")
    /\ [][ Count(tokens', "TemplateLiteralExprClose")
              > Count(tokens, "TemplateLiteralExprClose") =>
              /\ template_depth > 0
              /\ rec' = "template_expr_end"
              /\ Count(tokens', "TemplateLiteralExprClose")
                    = Count(tokens, "TemplateLiteralExprClose") + 1 ]_vars
    /\ [](result = "ok" => returned = tokens)

(* An expression was closed and the next one opened in one step: the       *)
(* sequence ends with ExprClose, TemplateLiteralString, ExprOpen.          *)
C19_Witness ==
    /\ rec = "template_expr_end"
    /\ Len(tokens) >= 5
    /\ tokens[Len(tokens)].type = "TemplateLiteralExprOpen"
    /\ tokens[Len(tokens) - 2].type = "TemplateLiteralExprClose"

(* C20: the whitespace step takes exactly one character and leaves the     *)
(* tokens and template_depth as they were; a "/" that starts no comment is *)
(* taken as a regex literal exactly when the last pushed token allows it,  *)
(* however much whitespace lies between them; and a Comment counts as that *)
(* token, so a "/" after a comment is not a regex literal.                 *)
C20_WhitespaceKeepsPreviousToken ==
    /\ [][ rec' = "whitespace" =>
              /\ is_whitespace(src[pos])
              /\ pos' = pos + 1
              /\ tokens' = tokens
              /\ template_depth' = template_depth
              /\ result' = "running" ]_vars
    /\ [][ (result = "running" /\ peek(src, pos) = "/"
              /\ ~starts_with(src, pos, <<"/", "/">>)) =>
              (rec' = "regex" <=> OpensRegexAfter(last(tokens))) ]_vars
    /\ [][ (result = "running" /\ last(tokens).type = "Comment") =>
              rec' # "regex" ]_vars

(* After a comment and the whitespace that ends its line, a "/" that would *)
(* open a regex literal at the start of input was not taken as one.        *)
C20_Witness ==
    /\ rec = "unrecognized"
    /\ last(tokens).type = "Comment"
    /\ diag.arg = "/"
    /\ is_whitespace(src[diag.pos - 1])
    /\ "whitespace" \in Range(tried)
    /\ try_parse_regex_literal(src, diag.pos, NoToken).res = "some"

====
